---- MODULE Spec2Model ----
(***************************************************************************)
(* Model of biodbcore.db.pipeline.Pipeline (src/src/biodbcore/db/          *)
(* pipeline.py): the controller's attributes, the run() dispatch, the two  *)
(* stages run_refseq / run_ena, the directory scanner list_sequence_files  *)
(* and the genome size calculator calculate_genome_size_from_file.         *)
(*                                                                         *)
(* The collaborators RefSeqRetriver.get_refseq_genomes and                 *)
(* ENASearcher.search_sequence_data / fetch_fastq_files are imported by    *)
(* pipeline.py but their code is not part of the sources; they are         *)
(* modelled from their contracts as nondeterministic answers.              *)
(***************************************************************************)
EXTENDS Integers, Sequences, FiniteSets, TLC

VARIABLES
    taxonomy_id,            \* self.taxonomy_id
    outdir,                 \* self.outdir (absolute)
    mode,                   \* self.mode
    reference_genome,       \* self.reference_genome
    sequence_dir,           \* self.sequence_dir
    genome_size,            \* self.genome_size (no attribute until a stage sets it)
    genome_size_ungapped,   \* self.genome_size_ungapped
    cfg,                    \* the constructor's arguments, as given
    pc,                     \* position of the running run() call, "idle" between calls
    runs,                   \* number of run() calls started on this controller
    entry,                  \* the working attributes as the current run() found them
    calls,                  \* operations invoked during the current run(), in order
    printed,                \* messages printed during the current run(), in order
    prev_calls,             \* the operations invoked during the run() before
    prev_outcome,           \* how the run() before ended
    refseq_results,         \* value run_refseq() returned in the current run
    ena_results,            \* value run_ena() returned in the current run
    sequence_data,          \* local of run_ena: answer of search_sequence_data
    run_accession_to_files, \* local of run_ena: answer of fetch_fastq_files
    outcome,                \* how the latest run() call ended
    disk_files,             \* genome files on disk, by path
    disk_dirs,              \* directories on disk, by absolute path
    calc_input,             \* stand-alone Calculator call: the path given
    calc_output,            \* stand-alone Calculator call: what it gave back
    calc_output_gz,         \* the same call on the gzip-compressed copy of the file
    scan_input,             \* stand-alone Scanner calls: the directory given
    scan_log                \* stand-alone Scanner calls: flag and answer of each

vars == <<taxonomy_id, outdir, mode, reference_genome, sequence_dir, genome_size,
          genome_size_ungapped, cfg, pc, runs, entry, calls, printed, prev_calls,
          prev_outcome, refseq_results, ena_results, sequence_data,
          run_accession_to_files, outcome, disk_files, disk_dirs,
          calc_input, calc_output, calc_output_gz, scan_input, scan_log>>

attrs == <<taxonomy_id, outdir, mode, reference_genome, sequence_dir, genome_size,
           genome_size_ungapped>>

\* what only the stand-alone calls of the two leaves touch
alone == <<calc_input, calc_output, calc_output_gz, scan_input, scan_log>>

\* what a run() call keeps of the call before it
before == <<prev_calls, prev_outcome>>

-----------------------------------------------------------------------------
(* Bounds of the model *)

\* run() calls made on one controller
MaxRuns == 2
\* characters (line terminators included) per FASTA file enumerated for the
\* Calculator
MaxChars == 6

\* entries (files, subdirectories) of one directory given to the Scanner alone
MaxEntries == 2

-----------------------------------------------------------------------------
(* Python values *)

NoneVal == [tag |-> "None"]
Unset == [tag |-> "unset"]
PyStr(s) == [tag |-> "str", val |-> s]
PyInt(n) == [tag |-> "int", val |-> n]
PyList(q) == [tag |-> "list", val |-> q]
PyBool(b) == [tag |-> "bool", val |-> b]
PyTuple(q) == [tag |-> "tuple", val |-> q]
PyDict(f) == [tag |-> "dict", val |-> f]
PyRaise(e) == [tag |-> "raise", val |-> e]

\* the truth test written as `is not None`
TruthyAsNotNone(x) == x.tag # "None"

\* Python truth value of None, a str, an int or a list
Truthy(x) ==
    CASE x.tag = "None" -> FALSE
      [] x.tag = "str" -> x.val # ""
      [] x.tag = "int" -> x.val # 0
      [] x.tag = "list" -> Len(x.val) > 0

\* dict.get(key, default) on a result mapping
DictGet(d, key, default) == IF key \in DOMAIN d THEN d[key] ELSE default

-----------------------------------------------------------------------------
(* The file system *)

Cwd == "/cwd"

\* os.path.abspath on the path strings of the model
abspath(p) ==
    CASE p = "out" -> "/cwd/out"
      [] p = "seqs" -> "/cwd/seqs"
      [] p = "" -> Cwd
      [] OTHER -> p

\* os.path.isabs
isabs(p) == p \in {"/cwd", "/cwd/out", "/cwd/seqs", "/data/seqs", "/nodir"}

DirKeys == {"/cwd/out", "/cwd/seqs", "/data/seqs", "/nodir"}

NoDir == [exists |-> FALSE]
Dir(files, subdirs) == [exists |-> TRUE, files |-> files, subdirs |-> subdirs]
SubDir(name, files) == [name |-> name, files |-> files]

\* os.path.exists(directory): the empty path names nothing
path_exists(directory, dirs) ==
    /\ directory # ""
    /\ abspath(directory) \in DOMAIN dirs
    /\ dirs[abspath(directory)].exists

\* os.path.join(root, name): a path is the sequence of its components, the
\* first being the directory string as it was given
join(root, name) == Append(root, name)

\* os.walk(directory), top-down: (root, files) of the directory, then of each
\* subdirectory
walk(directory, dirs) ==
    LET d == dirs[abspath(directory)]
    IN  <<[root |-> <<directory>>, files |-> d.files]>> \o
        [i \in 1..Len(d.subdirs) |->
            [root |-> join(<<directory>>, d.subdirs[i].name),
             files |-> d.subdirs[i].files]]

RECURSIVE collect_files(_, _)
\* the two nested loops of list_sequence_files over os.walk's answer
collect_files(walked, file_paths) ==
    IF walked = <<>> THEN file_paths
    ELSE LET step == Head(walked)
         IN  collect_files(Tail(walked),
                 file_paths \o [j \in 1..Len(step.files) |-> join(step.root, step.files[j])])

\* list_sequence_files without the os.path.exists test, listing the path itself
list_sequence_files_missing_nonempty(directory, print_files, dirs) ==
    IF ~path_exists(directory, dirs) THEN <<<<directory>>>>
    ELSE collect_files(walk(directory, dirs), <<>>)

\* list_sequence_files with os.listdir in place of os.walk
list_sequence_files_top_only(directory, print_files, dirs) ==
    IF ~path_exists(directory, dirs) THEN <<>>
    ELSE collect_files(SubSeq(walk(directory, dirs), 1, 1), <<>>)

\* list_sequence_files with its return inside the "if print_files:" block
list_sequence_files_quiet_empty(directory, print_files, dirs) ==
    IF ~path_exists(directory, dirs) THEN <<>>
    ELSE IF print_files THEN collect_files(walk(directory, dirs), <<>>) ELSE <<>>

\* Pipeline.list_sequence_files: print_files only selects what is printed
list_sequence_files(directory, print_files, dirs) ==
    IF ~path_exists(directory, dirs) THEN <<>>
    ELSE LET file_paths == collect_files(walk(directory, dirs), <<>>)
         IN  IF file_paths = <<>> THEN <<>> ELSE file_paths

\* Pipeline.list_sequence_files: what it prints
list_sequence_files_printed(directory, print_files, dirs) ==
    IF ~path_exists(directory, dirs) THEN <<"Directory does not exist">>
    ELSE LET file_paths == collect_files(walk(directory, dirs), <<>>)
         IN  IF file_paths = <<>> THEN <<"No sequence files found in the directory.">>
             ELSE IF print_files
                  THEN <<"Sequence files found in the directory:">>
                           \o [i \in 1..Len(file_paths) |-> "- file"]
                  ELSE <<>>

-----------------------------------------------------------------------------
(* Genome files and the Calculator *)

GenomePaths == {"ref.fa", "ref.fa.gz", "missing.fa", "/cwd/out/GCF_1.fna.gz"}

\* str.endswith(".gz")
endswith_gz(p) == p \in {"ref.fa.gz", "/cwd/out/GCF_1.fna.gz"}

\* a gzip stream begins with the bytes 1f 8b
GzipMagic == <<"0x1f", "0x8b">>

\* the compressed payload is the text run-length coded: each character is
\* followed by the length of its run, one digit
RunLengths == <<"1", "2", "3", "4", "5", "6", "7", "8", "9">>

RECURSIVE run_of(_, _)
\* how many times c leads s, at most Len(RunLengths)
run_of(c, s) ==
    IF s = <<>> \/ Head(s) # c THEN 0
    ELSE LET rest == run_of(c, Tail(s))
         IN  IF rest < Len(RunLengths) THEN rest + 1 ELSE rest

RECURSIVE deflate(_)
deflate(text) ==
    IF text = <<>> THEN <<>>
    ELSE LET n == run_of(Head(text), text)
         IN  <<Head(text), RunLengths[n]>> \o deflate(SubSeq(text, n + 1, Len(text)))

RECURSIVE inflate(_)
inflate(payload) ==
    IF Len(payload) < 2 THEN <<>>
    ELSE LET n == CHOOSE k \in 1..Len(RunLengths) : RunLengths[k] = payload[2]
         IN  [i \in 1..n |-> payload[1]] \o inflate(SubSeq(payload, 3, Len(payload)))

\* what gzip writes for a text
gzip_compress(text) == GzipMagic \o deflate(text)

\* gzip.open(path, "rt"): an empty file reads as empty, anything else must
\* begin with the magic bytes
is_gzip(data) == data = <<>> \/ (Len(data) >= 2 /\ SubSeq(data, 1, 2) = GzipMagic)
gzip_decompress(data) == IF data = <<>> THEN <<>> ELSE inflate(SubSeq(data, 3, Len(data)))

\* open(path, "rt", encoding="utf-8"): the byte 8b begins no UTF-8 character
utf8_valid(data) == \A i \in 1..Len(data) : data[i] # "0x8b"

NoFile == [exists |-> FALSE]
\* a file holds the bytes of a text, written plain or gzip-compressed
File(encoding, text) ==
    [exists |-> TRUE, data |-> IF encoding = "gzip" THEN gzip_compress(text) ELSE text]

Whitespace == {" ", "\n"}

RECURSIVE lstrip(_)
lstrip(s) == IF s # <<>> /\ Head(s) \in Whitespace THEN lstrip(Tail(s)) ELSE s

RECURSIVE rstrip(_)
rstrip(s) ==
    IF s # <<>> /\ s[Len(s)] \in Whitespace THEN rstrip(SubSeq(s, 1, Len(s) - 1)) ELSE s

\* str.strip()
strip(s) == rstrip(lstrip(s))

\* str.replace("N", "")
replace_N(s) == SelectSeq(s, LAMBDA c : c # "N")

\* str.startswith(">")
startswith_gt(line) == line # <<>> /\ Head(line) = ">"

RECURSIVE readlines(_, _)
\* iterating a text file yields each line with its terminator; the last line
\* may have none
readlines(text, line) ==
    IF text = <<>> THEN (IF line = <<>> THEN <<>> ELSE <<line>>)
    ELSE IF Head(text) = "\n" THEN <<Append(line, "\n")>> \o readlines(Tail(text), <<>>)
    ELSE readlines(Tail(text), Append(line, Head(text)))

\* the loop body with a case-insensitive gap symbol
calc_line_gap_anycase(line, acc) ==
    IF ~startswith_gt(line)
    THEN LET sequence == strip(line)
         IN  <<acc[1] + Len(sequence),
               acc[2] + Len(SelectSeq(sequence, LAMBDA c : c \notin {"N", "n"}))>>
    ELSE acc

\* the loop body with per-record counters
calc_line_header_resets(line, acc) ==
    IF ~startswith_gt(line)
    THEN LET sequence == strip(line)
         IN  <<acc[1] + Len(sequence), acc[2] + Len(replace_N(sequence))>>
    ELSE <<0, 0>>

\* body of the loop of calculate_genome_size_from_file: acc is
\* (genome_size, genome_size_ungapped)
calc_line(line, acc) ==
    IF ~startswith_gt(line)
    THEN LET sequence == strip(line)
         IN  <<acc[1] + Len(sequence), acc[2] + Len(replace_N(sequence))>>
    ELSE acc

RECURSIVE calc_loop(_, _)
calc_loop(lines, acc) ==
    IF lines = <<>> THEN acc ELSE calc_loop(Tail(lines), calc_line(Head(lines), acc))

CalcOk(sizes) == [ok |-> TRUE, genome_size |-> sizes[1], genome_size_ungapped |-> sizes[2]]
CalcErr(e) == [ok |-> FALSE, error |-> e]
\* the Calculator's answer as its caller sees it: a pair, or an exception
CalcRet(r) ==
    IF r.ok THEN PyTuple(<<PyInt(r.genome_size), PyInt(r.genome_size_ungapped)>>)
    ELSE PyRaise(r.error)

\* calculate_genome_size_from_file with open() whatever the name's suffix
calculate_genome_size_from_file_open_only(path, files) ==
    LET f == IF path \in DOMAIN files THEN files[path] ELSE NoFile
    IN  IF ~f.exists THEN CalcErr("FileNotFoundError")
        ELSE IF ~utf8_valid(f.data) THEN CalcErr("UnicodeDecodeError")
        ELSE CalcOk(calc_loop(readlines(f.data, <<>>), <<0, 0>>))

\* Pipeline.calculate_genome_size_from_file: gzip.open or open by the name's
\* suffix, then the loop; opening or decoding can fail
calculate_genome_size_from_file(path, files) ==
    LET f == IF path \in DOMAIN files THEN files[path] ELSE NoFile
    IN  IF ~f.exists THEN CalcErr("FileNotFoundError")
        ELSE IF endswith_gz(path)
        THEN IF ~is_gzip(f.data) THEN CalcErr("BadGzipFile")
             ELSE CalcOk(calc_loop(readlines(gzip_decompress(f.data), <<>>), <<0, 0>>))
        ELSE IF ~utf8_valid(f.data) THEN CalcErr("UnicodeDecodeError")
             ELSE CalcOk(calc_loop(readlines(f.data, <<>>), <<0, 0>>))

-----------------------------------------------------------------------------
(* The collaborators, from their contracts *)

\* FASTA contents of the genome files of the model
FastaExample == <<">", "c", "h", "r", "1", "\n", "A", "C", "G", "T", "N", "N", "\n">>
FastaAllGaps == <<">", "c", "\n", "N", "N", "\n">>
SampleContents == {FastaExample, FastaAllGaps}

RetrievedPath == "/cwd/out/GCF_1.fna.gz"
RetrievedName == "GCF_1.fna.gz"

Raised(e) == [raised |-> TRUE, error |-> e]

\* RefSeqRetriver.get_refseq_genomes(taxonomy_id): fails, or downloads an
\* assembly under the output directory and answers (path, total, ungapped);
\* the figures are the archive's, which may or may not be the file's own
get_refseq_genomes(tid) ==
    {Raised("RetrievalError")} \cup
    {[raised |-> FALSE, path |-> RetrievedPath, text |-> c[1],
      total_length |-> c[2], ungapped_length |-> c[3]] :
        c \in {<<FastaExample, 6, 4>>, <<FastaAllGaps, 2, 0>>, <<FastaExample, 6, 0>>}}

\* ENASearcher.search_sequence_data(genome_size_ungapped): fails, or answers
\* a (possibly empty) list of candidate runs
search_sequence_data(hint) ==
    {Raised("SearchError")} \cup
    {[raised |-> FALSE, candidates |-> q] : q \in {<<>>, <<"ERR1", "ERR2">>}}

FastqName(acc) == IF acc = "ERR1" THEN "ERR1.fastq.gz" ELSE "ERR2.fastq.gz"

\* ENASearcher.fetch_fastq_files(candidates, destination_dir): fails, or
\* downloads one file per candidate and answers run accession -> files
fetch_fastq_files(candidates, destination_dir) ==
    {Raised("DownloadError")} \cup
    {[raised |-> FALSE,
      written |-> [i \in 1..Len(candidates) |-> FastqName(candidates[i])],
      mapping |-> [a \in {candidates[i] : i \in 1..Len(candidates)} |->
                      <<join(<<destination_dir>>, FastqName(a))>>]]}

RECURSIVE add_files(_, _)
\* a download adds the files the directory does not hold yet
add_files(files, names) ==
    IF names = <<>> THEN files
    ELSE add_files(IF \E i \in 1..Len(files) : files[i] = Head(names)
                   THEN files ELSE Append(files, Head(names)), Tail(names))

write_to_dir(dirs, directory, names) ==
    LET k == abspath(directory)
    IN  [dirs EXCEPT ![k] = Dir(add_files(IF dirs[k].exists THEN dirs[k].files ELSE <<>>, names),
                                IF dirs[k].exists THEN dirs[k].subdirs ELSE <<>>)]

-----------------------------------------------------------------------------
(* Construction *)

TaxonomyIds == {562, 9606}
Modes == {"refseq", "ena", "both", "all"}
RefArgs == {NoneVal, PyStr(""), PyStr("ref.fa"), PyStr("missing.fa")}
SeqDirArgs == {NoneVal, PyStr(""), PyStr("seqs"), PyStr("/data/seqs"), PyStr("/nodir")}
SizeArgs == {NoneVal, PyInt(0), PyInt(5)}

Args == [taxonomy_id : TaxonomyIds, outdir : {"out"}, mode : Modes,
         reference_genome : RefArgs, sequence_dir : SeqDirArgs,
         genome_size_ungapped : SizeArgs]

\* the directories before the first run: the output directory exists
\* (os.makedirs in __init__)
InitialDirs ==
    [k \in DirKeys |->
        CASE k = "/cwd/out" -> Dir(<<>>, <<>>)
          [] k = "/cwd/seqs" -> Dir(<<"a.fastq", "b.fastq">>, <<SubDir("run1", <<"c.fastq">>)>>)
          [] k = "/data/seqs" -> Dir(<<>>, <<SubDir("empty", <<>>)>>)
          [] k = "/nodir" -> NoDir]

InitialFiles(text) ==
    [p \in GenomePaths |->
        CASE p = "ref.fa" -> File("plain", text)
          [] p = "ref.fa.gz" -> File("gzip", text)
          [] OTHER -> NoFile]

NoOutcome == [status |-> "none"]
Returned(v) == [status |-> "returned", value |-> v]
Failed(e) == [status |-> "raised", error |-> e]

\* Pipeline.__init__
Constructed(a) ==
    /\ cfg = a
    /\ taxonomy_id = a.taxonomy_id
    /\ outdir = abspath(a.outdir)
    /\ mode = a.mode
    /\ reference_genome = a.reference_genome
    /\ sequence_dir = a.sequence_dir
    /\ genome_size_ungapped = a.genome_size_ungapped
    /\ genome_size = Unset
    /\ pc = "idle"
    /\ runs = 0
    /\ entry = [reference_genome |-> a.reference_genome, sequence_dir |-> a.sequence_dir,
                genome_size |-> Unset, genome_size_ungapped |-> a.genome_size_ungapped]
    /\ calls = <<>>
    /\ printed = <<>>
    /\ prev_calls = <<>>
    /\ prev_outcome = NoOutcome
    /\ refseq_results = NoneVal
    /\ ena_results = NoneVal
    /\ sequence_data = NoneVal
    /\ run_accession_to_files = NoneVal
    /\ outcome = NoOutcome

Init ==
    /\ \E a \in Args : Constructed(a)
    /\ \E text \in SampleContents : disk_files = InitialFiles(text)
    /\ disk_dirs = InitialDirs
    /\ calc_input = "ref.fa"
    /\ calc_output = NoneVal
    /\ calc_output_gz = NoneVal
    /\ scan_input = "seqs"
    /\ scan_log = <<>>

-----------------------------------------------------------------------------
(* run() and its stages *)

\* one invocation: the operation, its arguments and its answer
Call(op, args, ret) == [op |-> op, args |-> args, ret |-> ret]

\* the if/elif chain with the last branch as a plain else
mode_target_else_ena(m) ==
    CASE m = "refseq" -> "run_refseq"
      [] m = "both" -> "run_refseq"
      [] OTHER -> "run_ena"

\* the dispatch with the both branch entering run_ena at once
mode_target_both_ena_first(m) ==
    CASE m = "refseq" -> "run_refseq"
      [] m = "ena" -> "run_ena"
      [] m = "both" -> "run_ena"
      [] OTHER -> "raise"

\* the if/elif chain of run(): the stage a mode starts with, or the ValueError
mode_target(m) ==
    CASE m = "refseq" -> "run_refseq"
      [] m = "ena" -> "run_ena"
      [] m = "both" -> "run_refseq"
      [] OTHER -> "raise"

\* what run() hands back to its caller once its last stage has returned: the
\* refseq and ena branches return the stage's value, the both branch calls
\* run_ena() without returning its value
run_result(m, refseq_value, ena_value) ==
    CASE m = "refseq" -> refseq_value
      [] m = "ena" -> ena_value
      [] OTHER -> NoneVal

\* os.path.relpath(reference_genome, start=os.path.dirname(self.outdir))
relpath(p) == IF p = "ref.fa" THEN "../ref.fa" ELSE p

\* run_refseq returning the path relative to the output directory's parent
refseq_mapping_relpath(ref, size, ungapped) ==
    [reference_genome |-> PyStr(relpath(ref.val)), genome_size |-> size,
     genome_size_ungapped |-> ungapped]

\* run_refseq with the two sizes exchanged
refseq_mapping_swapped(ref, size, ungapped) ==
    [reference_genome |-> ref, genome_size |-> ungapped, genome_size_ungapped |-> size]

\* the mapping run_refseq returns
refseq_mapping(ref, size, ungapped) ==
    [reference_genome |-> ref, genome_size |-> size, genome_size_ungapped |-> ungapped]

\* the three mappings run_ena returns
local_mapping(dir, files) == [sequence_dir |-> dir, sequence_files |-> PyList(files)]
empty_mapping(dir) == [sequence_dir |-> dir, sequence_data |-> PyList(<<>>)]

\* the download's mapping with the key of the local inventory
download_mapping_sequence_files(dir, by_run, flat) ==
    [sequence_dir |-> dir, run_accession_to_files |-> by_run, sequence_files |-> PyList(flat)]

\* run_ena's mapping after a download
download_mapping(dir, by_run, flat) ==
    [sequence_dir |-> dir, run_accession_to_files |-> by_run, all_files_flat |-> PyList(flat)]

\* the test on the search's answer written as a test for None
no_candidates_is_none(data) == data = NoneVal

\* `if not sequence_data`
no_candidates(data) == ~Truthy(data)

\* the exception caught and dropped, run() returning None
Raise_swallowed(e) ==
    /\ outcome' = Returned(NoneVal)
    /\ pc' = "idle"

\* an exception leaves run()
Raise(e) ==
    /\ outcome' = Failed(e)
    /\ pc' = "idle"

\* run_refseq returns d: to the caller in mode refseq, into run() in mode both
RefseqReturn(d) ==
    /\ refseq_results' = d
    /\ IF mode = "refseq"
       THEN outcome' = Returned(run_result(mode, d, ena_results)) /\ pc' = "idle"
       ELSE outcome' = outcome /\ pc' = "adopt"

\* run_ena returns d, and run() returns after it
EnaReturn(d) ==
    /\ ena_results' = d
    /\ outcome' = Returned(run_result(mode, refseq_results, d))
    /\ pc' = "idle"

\* run(): the dispatch on self.mode
run ==
    /\ pc = "idle"
    /\ runs < MaxRuns
    /\ runs' = runs + 1
    /\ entry' = [reference_genome |-> reference_genome, sequence_dir |-> sequence_dir,
                 genome_size |-> genome_size, genome_size_ungapped |-> genome_size_ungapped]
    /\ calls' = <<>>
    /\ printed' = <<>>
    /\ prev_calls' = calls
    /\ prev_outcome' = outcome
    /\ refseq_results' = NoneVal
    /\ ena_results' = NoneVal
    /\ sequence_data' = NoneVal
    /\ run_accession_to_files' = NoneVal
    /\ IF mode_target(mode) = "raise"
       THEN Raise("ValueError")
       ELSE outcome' = NoOutcome /\ pc' = mode_target(mode)
    /\ UNCHANGED <<attrs, cfg, disk_files, disk_dirs, alone>>

\* run_refseq: the three lines printed before it returns
RefseqReport == <<"Genome size", "Ungapped genome size", "RefSeq genome saved to">>

\* run_refseq, a reference genome path is known: size it with the Calculator
run_refseq_local ==
    /\ pc = "run_refseq"
    /\ Truthy(reference_genome)
    /\ LET r == calculate_genome_size_from_file(reference_genome.val, disk_files)
       IN  /\ calls' = Append(calls, Call("calculate_genome_size_from_file",
                                          <<reference_genome>>, CalcRet(r)))
           /\ IF r.ok
              THEN /\ genome_size' = PyInt(r.genome_size)
                   /\ genome_size_ungapped' = PyInt(r.genome_size_ungapped)
                   /\ printed' = printed \o <<"Using local reference genome">>
                                         \o RefseqReport
                   /\ RefseqReturn(refseq_mapping(reference_genome, genome_size',
                                                  genome_size_ungapped'))
              ELSE /\ Raise(r.error)
                   /\ printed' = Append(printed, "Using local reference genome")
                   /\ UNCHANGED <<genome_size, genome_size_ungapped, refseq_results>>
    /\ UNCHANGED <<taxonomy_id, outdir, mode, reference_genome, sequence_dir, cfg, runs, entry, before,
                   ena_results, sequence_data, run_accession_to_files, disk_files,
                   disk_dirs, alone>>

\* run_refseq, no reference genome path: ask the retrieval collaborator
run_refseq_fetch ==
    /\ pc = "run_refseq"
    /\ ~Truthy(reference_genome)
    /\ \E ans \in get_refseq_genomes(taxonomy_id) :
        IF ans.raised
        THEN /\ calls' = Append(calls, Call("get_refseq_genomes", <<PyInt(taxonomy_id)>>,
                                            PyRaise(ans.error)))
             /\ Raise(ans.error)
             /\ printed' = Append(printed, "Fetching RefSeq genome data...")
             /\ UNCHANGED <<reference_genome, genome_size, genome_size_ungapped,
                            refseq_results, disk_files, disk_dirs>>
        ELSE /\ calls' = Append(calls, Call("get_refseq_genomes", <<PyInt(taxonomy_id)>>,
                     PyTuple(<<PyStr(ans.path), PyInt(ans.total_length),
                               PyInt(ans.ungapped_length)>>)))
             /\ reference_genome' = PyStr(ans.path)
             /\ genome_size' = PyInt(ans.total_length)
             /\ genome_size_ungapped' = PyInt(ans.ungapped_length)
             /\ disk_files' = [disk_files EXCEPT ![ans.path] = File("gzip", ans.text)]
             /\ disk_dirs' = write_to_dir(disk_dirs, outdir, <<RetrievedName>>)
             /\ printed' = printed \o <<"Fetching RefSeq genome data...">> \o RefseqReport
             /\ RefseqReturn(refseq_mapping(reference_genome', genome_size',
                                            genome_size_ungapped'))
    /\ UNCHANGED <<taxonomy_id, outdir, mode, sequence_dir, cfg, runs, entry, before, ena_results,
                   sequence_data, run_accession_to_files, alone>>

\* run(), mode both: take over what run_refseq returned, then enter run_ena
adopt ==
    /\ pc = "adopt"
    /\ genome_size' = DictGet(refseq_results, "genome_size", genome_size)
    /\ genome_size_ungapped' =
           DictGet(refseq_results, "genome_size_ungapped", genome_size_ungapped)
    /\ reference_genome' = DictGet(refseq_results, "reference_genome", reference_genome)
    /\ pc' = "run_ena"
    /\ UNCHANGED <<taxonomy_id, outdir, mode, sequence_dir, cfg, runs, entry, before, calls,
                   printed, refseq_results, ena_results, sequence_data, run_accession_to_files,
                   outcome, disk_files, disk_dirs, alone>>

\* run_ena, a sequence directory is known: inventory it and return
run_ena_local ==
    /\ pc = "run_ena"
    /\ Truthy(sequence_dir)
    /\ LET files == list_sequence_files(sequence_dir.val, TRUE, disk_dirs)
       IN  /\ calls' = Append(calls, Call("list_sequence_files",
                                          <<sequence_dir, PyBool(TRUE)>>, PyList(files)))
           /\ printed' = printed \o <<"Using local sequences from directory">>
                   \o list_sequence_files_printed(sequence_dir.val, TRUE, disk_dirs)
           /\ EnaReturn(local_mapping(sequence_dir, files))
    /\ UNCHANGED <<attrs, cfg, runs, entry, before, refseq_results, sequence_data,
                   run_accession_to_files, disk_files, disk_dirs, alone>>

\* run_ena, no sequence directory: default it to the output directory and
\* settle the ungapped genome size to search with
run_ena_resolve ==
    /\ pc = "run_ena"
    /\ ~Truthy(sequence_dir)
    /\ sequence_dir' = PyStr(outdir)
    /\ IF ~Truthy(genome_size_ungapped) /\ Truthy(reference_genome)
       THEN LET r == calculate_genome_size_from_file(reference_genome.val, disk_files)
            IN  /\ calls' = Append(calls, Call("calculate_genome_size_from_file",
                                               <<reference_genome>>, CalcRet(r)))
                /\ printed' = Append(printed, "Searching for sequence data in ENA...")
                /\ IF r.ok
                   THEN /\ genome_size' = PyInt(r.genome_size)
                        /\ genome_size_ungapped' = PyInt(r.genome_size_ungapped)
                        /\ pc' = "search"
                        /\ UNCHANGED outcome
                   ELSE /\ Raise(r.error)
                        /\ UNCHANGED <<genome_size, genome_size_ungapped>>
       ELSE /\ pc' = "search"
            /\ printed' = printed \o <<"Searching for sequence data in ENA...",
                                        IF Truthy(genome_size_ungapped)
                                        THEN "Using provided ungapped genome size"
                                        ELSE "Genome size not provided">>
            /\ UNCHANGED <<calls, genome_size, genome_size_ungapped, outcome>>
    /\ UNCHANGED <<taxonomy_id, outdir, mode, reference_genome, cfg, runs, entry, before, refseq_results,
                   ena_results, sequence_data, run_accession_to_files, disk_files,
                   disk_dirs, alone>>

\* run_ena: the search, and the return when it finds nothing
search ==
    /\ pc = "search"
    /\ \E ans \in search_sequence_data(genome_size_ungapped) :
        IF ans.raised
        THEN /\ calls' = Append(calls, Call("search_sequence_data",
                                            <<genome_size_ungapped>>, PyRaise(ans.error)))
             /\ Raise(ans.error)
             /\ UNCHANGED <<sequence_data, ena_results, printed>>
        ELSE /\ calls' = Append(calls, Call("search_sequence_data",
                                            <<genome_size_ungapped>>, PyList(ans.candidates)))
             /\ sequence_data' = PyList(ans.candidates)
             /\ IF no_candidates(sequence_data')
                THEN /\ printed' = Append(printed, "No sequence data found.")
                     /\ EnaReturn(empty_mapping(sequence_dir))
                ELSE pc' = "fetch" /\ UNCHANGED <<outcome, ena_results, printed>>
    /\ UNCHANGED <<attrs, cfg, runs, entry, before, refseq_results, run_accession_to_files, disk_files,
                   disk_dirs, alone>>

\* run_ena: the download of the candidates into the working directory
fetch ==
    /\ pc = "fetch"
    /\ printed' = Append(printed, "Downloading FASTQ files...")
    /\ \E ans \in fetch_fastq_files(sequence_data.val, sequence_dir.val) :
        IF ans.raised
        THEN /\ calls' = Append(calls, Call("fetch_fastq_files",
                                            <<sequence_data, sequence_dir>>, PyRaise(ans.error)))
             /\ Raise(ans.error)
             /\ UNCHANGED <<run_accession_to_files, disk_dirs>>
        ELSE /\ calls' = Append(calls, Call("fetch_fastq_files",
                                            <<sequence_data, sequence_dir>>, PyDict(ans.mapping)))
             /\ run_accession_to_files' = PyDict(ans.mapping)
             /\ disk_dirs' = write_to_dir(disk_dirs, sequence_dir.val, ans.written)
             /\ pc' = "list"
             /\ UNCHANGED outcome
    /\ UNCHANGED <<attrs, cfg, runs, entry, before, refseq_results, ena_results, sequence_data,
                   disk_files, alone>>

\* run_ena: the flat listing of the working directory, and the return
snapshot ==
    /\ pc = "list"
    /\ LET all_downloaded == list_sequence_files(sequence_dir.val, FALSE, disk_dirs)
       IN  /\ calls' = Append(calls, Call("list_sequence_files",
                                          <<sequence_dir, PyBool(FALSE)>>,
                                          PyList(all_downloaded)))
           /\ printed' = printed
                   \o list_sequence_files_printed(sequence_dir.val, FALSE, disk_dirs)
           /\ EnaReturn(download_mapping(sequence_dir, run_accession_to_files,
                                         all_downloaded))
    /\ UNCHANGED <<attrs, cfg, runs, entry, before, refseq_results, sequence_data,
                   run_accession_to_files, disk_files, disk_dirs, alone>>

Next ==
    \/ run
    \/ run_refseq_local
    \/ run_refseq_fetch
    \/ adopt
    \/ run_ena_local
    \/ run_ena_resolve
    \/ search
    \/ fetch
    \/ snapshot

Spec == Init /\ [][Next]_vars

-----------------------------------------------------------------------------
(* The Calculator on its own, over every small FASTA content *)

Alphabet == {">", "N", "n", " ", "\n"}

RECURSIVE SeqsUpTo(_, _)
\* the sequences over S of length at most n
SeqsUpTo(S, n) ==
    IF n = 0 THEN {<<>>}
    ELSE LET shorter == SeqsUpTo(S, n - 1)
         IN  shorter \cup {Append(q, x) : q \in shorter, x \in S}

Contents == SeqsUpTo(Alphabet, MaxChars) \cup SampleContents

InitCalc ==
    /\ Constructed([taxonomy_id |-> 562, outdir |-> "out", mode |-> "refseq",
                    reference_genome |-> PyStr("ref.fa"), sequence_dir |-> NoneVal,
                    genome_size_ungapped |-> NoneVal])
    /\ \E text \in Contents : disk_files = InitialFiles(text)
    /\ disk_dirs = InitialDirs
    /\ calc_input = "ref.fa"
    /\ calc_output = NoneVal
    /\ calc_output_gz = NoneVal
    /\ scan_input = "seqs"
    /\ scan_log = <<>>

\* one call of calculate_genome_size_from_file
calculate ==
    /\ calc_output = NoneVal
    /\ calc_output' = calculate_genome_size_from_file(calc_input, disk_files)
    /\ UNCHANGED <<attrs, cfg, pc, runs, entry, before, calls, printed, refseq_results,
                   ena_results, sequence_data, run_accession_to_files, outcome, disk_files,
                   disk_dirs, calc_input, calc_output_gz, scan_input, scan_log>>

\* one call of calculate_genome_size_from_file on the compressed copy
calculate_gz ==
    /\ calc_output_gz = NoneVal
    /\ calc_output_gz' = calculate_genome_size_from_file("ref.fa.gz", disk_files)
    /\ UNCHANGED <<attrs, cfg, pc, runs, entry, before, calls, printed, refseq_results,
                   ena_results, sequence_data, run_accession_to_files, outcome, disk_files,
                   disk_dirs, calc_input, calc_output, scan_input, scan_log>>

NextCalc == calculate \/ calculate_gz

SpecCalc == InitCalc /\ [][NextCalc]_vars

-----------------------------------------------------------------------------
(* The Scanner on its own, over every small directory tree *)

FileNames == {"a.fastq", "b.fastq", "c.fastq"}
SubDirNames == {"run1", "run2"}

\* a directory never lists a name twice
distinct(q) == \A i, j \in 1..Len(q) : i # j => q[i] # q[j]

\* the file listings of one directory
Listings == {q \in SeqsUpTo(FileNames, MaxEntries) : distinct(q)}

\* the subdirectories of one directory
SubdirLists ==
    {q \in SeqsUpTo({SubDir(n, f) : n \in SubDirNames, f \in Listings}, MaxEntries) :
        distinct([i \in 1..Len(q) |-> q[i].name])}

Trees == {Dir(f, sd) : f \in Listings, sd \in SubdirLists}

\* the directory argument: relative, absolute, absent, empty
ScanDirs == {"seqs", "/data/seqs", "/nodir", ""}

InitScan ==
    /\ Constructed([taxonomy_id |-> 562, outdir |-> "out", mode |-> "ena",
                    reference_genome |-> NoneVal, sequence_dir |-> NoneVal,
                    genome_size_ungapped |-> NoneVal])
    /\ disk_files = InitialFiles(FastaExample)
    /\ calc_input = "ref.fa"
    /\ calc_output = NoneVal
    /\ calc_output_gz = NoneVal
    /\ scan_input \in ScanDirs
    /\ scan_log = <<>>
    /\ IF path_exists(scan_input, InitialDirs)
       THEN \E tree \in Trees :
                disk_dirs = [InitialDirs EXCEPT ![abspath(scan_input)] = tree]
       ELSE disk_dirs = InitialDirs

\* one call of list_sequence_files, with either flag
scan ==
    /\ Len(scan_log) < 2
    /\ \E print_files \in BOOLEAN :
           scan_log' = Append(scan_log,
               [print_files |-> print_files,
                ret |-> list_sequence_files(scan_input, print_files, disk_dirs),
                printed |-> list_sequence_files_printed(scan_input, print_files, disk_dirs)])
    /\ UNCHANGED <<attrs, cfg, pc, runs, entry, before, calls, printed, refseq_results,
                   ena_results, sequence_data, run_accession_to_files, outcome, disk_files,
                   disk_dirs, calc_input, calc_output, calc_output_gz, scan_input>>

NextScan == scan

SpecScan == InitScan /\ [][NextScan]_vars

-----------------------------------------------------------------------------
(* Vocabulary of the properties *)

\* a path was given: neither None nor the empty string
Given(x) == x.tag = "str" /\ x.val # ""

\* the operation was invoked during the current run()
Invoked(op) == \E i \in 1..Len(calls) : calls[i].op = op

\* the latest run() call is over
RunEnded == pc = "idle" /\ runs > 0

SupportedModes == {"refseq", "ena", "both"}

\* the files below a directory, at any depth, as joined paths
FilesUnder(directory, dirs) ==
    LET k == abspath(directory)
    IN  IF directory = "" \/ k \notin DOMAIN dirs \/ ~dirs[k].exists THEN {}
        ELSE {<<directory, dirs[k].files[i]>> : i \in 1..Len(dirs[k].files)} \cup
             UNION {{<<directory, dirs[k].subdirs[j].name, dirs[k].subdirs[j].files[i]>> :
                        i \in 1..Len(dirs[k].subdirs[j].files)} :
                    j \in 1..Len(dirs[k].subdirs)}

Elements(q) == {q[i] : i \in 1..Len(q)}

-----------------------------------------------------------------------------
(* C1: in mode both, run() returns to its caller the mapping run_ena
   produced. *)
C1_BothReturnsEnaResult ==
    (mode = "both" /\ pc = "idle" /\ ena_results # NoneVal)
        => outcome = Returned(ena_results)

(* C2: with a mode other than refseq, ena and both, every run() raises
   ValueError at once: no operation is invoked, the working attributes are
   those the constructor set, and nothing is written to disk. *)
C2_UnsupportedModeDoesNothing ==
    cfg.mode \notin SupportedModes =>
        /\ pc = "idle"
        /\ calls = <<>>
        /\ runs > 0 => outcome = Failed("ValueError")
        /\ reference_genome = cfg.reference_genome
        /\ sequence_dir = cfg.sequence_dir
        /\ genome_size_ungapped = cfg.genome_size_ungapped
        /\ genome_size = Unset
        /\ disk_dirs = InitialDirs
        /\ ~disk_files[RetrievedPath].exists

C2_Witness ==
    /\ cfg.mode = "all"
    /\ runs = MaxRuns
    /\ outcome = Failed("ValueError")
    /\ Given(cfg.reference_genome)

(* C3: when a sequence directory was given to the constructor, run_ena
   returns exactly {sequence_dir, sequence_files}: the directory as given and
   the Scanner's inventory of it, one entry per file below it; search and
   download are not invoked in that run. *)
C3_LocalDirectoryInventory ==
    Given(cfg.sequence_dir) =>
        /\ ~Invoked("search_sequence_data")
        /\ ~Invoked("fetch_fastq_files")
        /\ ena_results # NoneVal =>
            LET last == calls[Len(calls)]
                want == FilesUnder(cfg.sequence_dir.val, disk_dirs)
            IN  /\ last.op = "list_sequence_files"
                /\ last.args[1] = cfg.sequence_dir
                /\ ena_results = [sequence_dir |-> cfg.sequence_dir,
                                  sequence_files |-> last.ret]
                /\ Elements(last.ret.val) = want
                /\ Len(last.ret.val) = Cardinality(want)
                /\ cfg.sequence_dir.val = "seqs" => Len(ena_results.sequence_files.val) = 3

C3_Witness ==
    /\ cfg.mode = "both"
    /\ cfg.sequence_dir = PyStr("seqs")
    /\ RunEnded
    /\ ena_results # NoneVal
    /\ Len(ena_results.sequence_files.val) = 3
    /\ Invoked("get_refseq_genomes")

(* C4: in mode ena with no sequence directory known, an empty answer of the
   search ends the run successfully with {sequence_dir, sequence_data: []}
   and without a download; and in any run a download is invoked only right
   after a search that answered a non-empty list, with that list. *)
C4_EmptySearchNoDownload ==
    /\ (mode = "ena" /\ calls # <<>>
            /\ calls[Len(calls)].op = "search_sequence_data"
            /\ calls[Len(calls)].ret = PyList(<<>>)) =>
        /\ pc = "idle"
        /\ ~Invoked("fetch_fastq_files")
        /\ outcome = Returned([sequence_dir |-> PyStr(outdir),
                               sequence_data |-> PyList(<<>>)])
    /\ \A i \in 1..Len(calls) :
        calls[i].op = "fetch_fastq_files" =>
            /\ i > 1
            /\ calls[i - 1].op = "search_sequence_data"
            /\ calls[i - 1].ret.tag = "list"
            /\ Len(calls[i - 1].ret.val) > 0
            /\ calls[i].args[1] = calls[i - 1].ret

C4_Witness ==
    /\ mode = "ena"
    /\ ~Given(cfg.sequence_dir)
    /\ RunEnded
    /\ Invoked("search_sequence_data")
    /\ outcome.status = "returned"
    /\ "sequence_data" \in DOMAIN outcome.value

(* C5: in mode refseq, when a reference genome path is known as run() starts
   (the one given to the constructor, which run() never replaces), the
   result's reference_genome is that path, its two sizes are the Calculator's
   for that file, and get_refseq_genomes is not invoked; when none is known,
   get_refseq_genomes is invoked with the taxonomy identifier and the triple
   it answers makes the three fields of the result. *)
C5_RefseqResult ==
    mode = "refseq" =>
        /\ Given(cfg.reference_genome) => entry.reference_genome = cfg.reference_genome
        /\ runs = 1 => entry.reference_genome = cfg.reference_genome
        /\ (RunEnded /\ Given(entry.reference_genome)) =>
            /\ ~Invoked("get_refseq_genomes")
            /\ outcome.status = "returned" =>
                LET r == calculate_genome_size_from_file(entry.reference_genome.val,
                                                         disk_files)
                IN  /\ r.ok
                    /\ outcome.value =
                           [reference_genome |-> entry.reference_genome,
                            genome_size |-> PyInt(r.genome_size),
                            genome_size_ungapped |-> PyInt(r.genome_size_ungapped)]
        /\ (RunEnded /\ ~Given(entry.reference_genome)) =>
            /\ Len(calls) = 1
            /\ calls[1].op = "get_refseq_genomes"
            /\ calls[1].args = <<PyInt(cfg.taxonomy_id)>>
            /\ ~Invoked("calculate_genome_size_from_file")
            /\ outcome.status = "returned" =>
                /\ calls[1].ret.tag = "tuple"
                /\ outcome.value =
                       [reference_genome |-> calls[1].ret.val[1],
                        genome_size |-> calls[1].ret.val[2],
                        genome_size_ungapped |-> calls[1].ret.val[3]]

C5_Witness ==
    /\ mode = "refseq"
    /\ runs = 1
    /\ RunEnded
    /\ cfg.reference_genome = PyStr("ref.fa")
    /\ cfg.genome_size_ungapped = PyInt(5)
    /\ outcome = Returned([reference_genome |-> PyStr("ref.fa"), genome_size |-> PyInt(6),
                           genome_size_ungapped |-> PyInt(4)])

(* C6: in mode both, once run() has returned, the working genome size, the
   working ungapped size and the working reference path are the ones
   run_refseq returned, an ungapped size of 0 included. *)
C6_BothKeepsRefseqFigures ==
    (mode = "both" /\ RunEnded /\ outcome.status = "returned") =>
        /\ genome_size = refseq_results.genome_size
        /\ genome_size_ungapped = refseq_results.genome_size_ungapped
        /\ reference_genome = refseq_results.reference_genome

(* C7, as claimed: the taxonomy identifier, output directory, mode, reference
   genome path, sequence directory and ungapped genome size of the controller
   are at all times the ones the constructor was given. *)
C7_ConfigurationNeverMutated ==
    /\ taxonomy_id = cfg.taxonomy_id
    /\ outdir = abspath(cfg.outdir)
    /\ mode = cfg.mode
    /\ reference_genome = cfg.reference_genome
    /\ sequence_dir = cfg.sequence_dir
    /\ genome_size_ungapped = cfg.genome_size_ungapped

(* C7, amended: the taxonomy identifier, output directory and mode are at all
   times the ones the constructor was given, and so are a reference genome
   path and a sequence directory that were given; a reference path or
   sequence directory that was not given, and the ungapped genome size, are
   working attributes the stages overwrite. *)
C7_GivenConfigurationKept ==
    /\ taxonomy_id = cfg.taxonomy_id
    /\ outdir = abspath(cfg.outdir)
    /\ mode = cfg.mode
    /\ Given(cfg.reference_genome) => reference_genome = cfg.reference_genome
    /\ Given(cfg.sequence_dir) => sequence_dir = cfg.sequence_dir

C7_Witness ==
    /\ mode = "both"
    /\ runs = MaxRuns
    /\ RunEnded
    /\ outcome.status = "returned"
    /\ cfg.reference_genome = PyStr("ref.fa")
    /\ cfg.sequence_dir = PyStr("seqs")
    /\ cfg.genome_size_ungapped = PyInt(5)
    /\ genome_size_ungapped # cfg.genome_size_ungapped

-----------------------------------------------------------------------------
(* The FASTA text read character by character *)

CalcText == disk_files[calc_input].data

\* the position where the line holding position i starts
LineStart(text, i) ==
    CHOOSE j \in 1..i :
        /\ j = 1 \/ text[j - 1] = "\n"
        /\ \A k \in j..(i - 1) : text[k] # "\n"

\* position i lies in a line that begins with ">"
InHeader(text, i) == text[LineStart(text, i)] = ">"

\* position i lies between the first and the last non-blank character of its
\* line, both included
InsideStripped(text, i) ==
    /\ \E k \in LineStart(text, i)..i : text[k] \notin Whitespace
    /\ \E k \in i..Len(text) :
        /\ text[k] \notin Whitespace
        /\ \A m \in i..k : text[m] # "\n"

\* the positions the sizes count
Counted(text) ==
    {i \in 1..Len(text) : ~InHeader(text, i) /\ InsideStripped(text, i)}

(* C8: for every FASTA text the Calculator answers sizes with
   0 <= ungapped <= total, and the two are equal exactly when no uppercase N
   occurs in a line that does not begin with ">". *)
C8_UngappedAtMostTotal ==
    calc_output # NoneVal =>
        /\ calc_output.ok
        /\ 0 <= calc_output.genome_size_ungapped
        /\ calc_output.genome_size_ungapped <= calc_output.genome_size
        /\ (calc_output.genome_size_ungapped = calc_output.genome_size)
               <=> (\A i \in 1..Len(CalcText) :
                        CalcText[i] = "N" => InHeader(CalcText, i))

C8_Witness ==
    /\ calc_output # NoneVal
    /\ CalcText = <<">", "N", "\n", "n", "N", " ">>
    /\ calc_output.genome_size = 2
    /\ calc_output.genome_size_ungapped = 1

(* C9: total_length is the number of characters of the lines not beginning
   with ">", leading and trailing blanks of each line left out, and
   ungapped_length is that number without the uppercase N; a lowercase n
   counts, header lines count nothing and do not reset the sums; the text
   ">chr1" / "ACGTNN" gives (6, 4). *)
C9_SizesAreStrippedSums ==
    calc_output # NoneVal =>
        /\ calc_output.ok
        /\ calc_output.genome_size = Cardinality(Counted(CalcText))
        /\ calc_output.genome_size_ungapped =
               Cardinality({i \in Counted(CalcText) : CalcText[i] # "N"})
        /\ CalcText = FastaExample =>
               calc_output.genome_size = 6 /\ calc_output.genome_size_ungapped = 4

C9_Witness ==
    /\ calc_output # NoneVal
    /\ CalcText = <<"N", "n", "\n", ">", "\n", "N">>
    /\ calc_output.genome_size = 3
    /\ calc_output.genome_size_ungapped = 1

-----------------------------------------------------------------------------
(* C10: the Scanner answers the empty list for a directory that does not
   exist, and a run in mode ena whose given sequence directory does not exist
   returns {sequence_dir, sequence_files: []}. *)
C10_AbsentDirectoryIsEmpty ==
    /\ \A i \in 1..Len(calls) :
        (calls[i].op = "list_sequence_files"
            /\ ~disk_dirs[abspath(calls[i].args[1].val)].exists)
                => calls[i].ret = PyList(<<>>)
    /\ (mode = "ena" /\ RunEnded /\ Given(cfg.sequence_dir)
            /\ ~disk_dirs[abspath(cfg.sequence_dir.val)].exists) =>
        outcome = Returned([sequence_dir |-> cfg.sequence_dir,
                            sequence_files |-> PyList(<<>>)])

C10_Witness ==
    /\ mode = "ena"
    /\ RunEnded
    /\ cfg.sequence_dir = PyStr("/nodir")
    /\ outcome.status = "returned"
    /\ outcome.value.sequence_files = PyList(<<>>)
    /\ Invoked("list_sequence_files")

-----------------------------------------------------------------------------
(* C11: the Scanner is idempotent and read-only: successive calls on a
   directory nothing has modified answer the same set of paths, with either
   value of print_files, and a call changes neither what the directories
   hold nor any attribute of the pipeline. *)
C11_ScannerIdempotentReadOnly ==
    /\ [](\A i, j \in 1..Len(scan_log) :
             Elements(scan_log[i].ret) = Elements(scan_log[j].ret))
    /\ [][scan_log' # scan_log =>
             /\ disk_dirs' = disk_dirs
             /\ disk_files' = disk_files
             /\ attrs' = attrs]_vars

\* a tree with files has been scanned twice, once with each flag
C11_Witness ==
    /\ Len(scan_log) = 2
    /\ scan_log[1].print_files # scan_log[2].print_files
    /\ Len(scan_log[1].ret) >= 2
    /\ path_exists(scan_input, disk_dirs)

-----------------------------------------------------------------------------
(* C12: the Calculator does not depend on the compression: for one content,
   the call on the plain file and the call on its gzip-compressed copy, told
   apart by the ".gz" suffix of the name, answer the same
   (total_length, ungapped_length). *)
C12_CompressionInvariant ==
    (/\ calc_output # NoneVal
     /\ calc_output_gz # NoneVal
     /\ ~endswith_gz(calc_input)
     /\ disk_files["ref.fa.gz"].data = gzip_compress(disk_files[calc_input].data))
    => /\ calc_output.ok
       /\ calc_output_gz.ok
       /\ calc_output_gz.genome_size = calc_output.genome_size
       /\ calc_output_gz.genome_size_ungapped = calc_output.genome_size_ungapped

\* both calls were made on a content whose compressed bytes differ from it in
\* length and which has gaps and bases
C12_Witness ==
    /\ calc_output # NoneVal
    /\ calc_output_gz # NoneVal
    /\ calc_output_gz.ok
    /\ calc_output_gz.genome_size_ungapped > 0
    /\ calc_output_gz.genome_size > calc_output_gz.genome_size_ungapped
    /\ disk_files["ref.fa.gz"].data # disk_files["ref.fa"].data
    /\ \E i \in 1..Len(disk_files["ref.fa.gz"].data) :
           disk_files["ref.fa.gz"].data[i] = "2"

-----------------------------------------------------------------------------
(* Two successive run() calls *)

\* the operations of a call log, in order
Ops(q) == [i \in 1..Len(q) |-> q[i].op]

\* the keys of the mapping a run() returned; none when it raised
ResultShape(o) == IF o.status = "returned" THEN DOMAIN o.value ELSE {}

\* the same invocation got the same answer in the run before and in this one
SameAnswers ==
    \A i \in 1..Len(prev_calls) : \A j \in 1..Len(calls) :
        (prev_calls[i].op = calls[j].op /\ prev_calls[i].args = calls[j].args)
            => prev_calls[i].ret = calls[j].ret

(* C13: nothing is kept from one run() to the next: on a pipeline constructed
   without a sequence directory, two successive run() calls in mode ena, the
   collaborators answering the same, both invoke search_sequence_data and
   return results of the same shape; on one constructed without a reference
   genome path, every successive run() in mode refseq invokes
   get_refseq_genomes; the second run invokes the same operations in the same
   order as the first. *)
C13_NoCrossRunState ==
    (runs >= 2 /\ RunEnded /\ SameAnswers) =>
        /\ (mode = "ena" /\ ~Given(cfg.sequence_dir)) =>
               /\ \E i \in 1..Len(prev_calls) : prev_calls[i].op = "search_sequence_data"
               /\ Invoked("search_sequence_data")
               /\ ResultShape(outcome) = ResultShape(prev_outcome)
               /\ Ops(calls) = Ops(prev_calls)
        /\ (mode = "refseq" /\ ~Given(cfg.reference_genome)) =>
               /\ \E i \in 1..Len(prev_calls) : prev_calls[i].op = "get_refseq_genomes"
               /\ Invoked("get_refseq_genomes")
               /\ Ops(calls) = Ops(prev_calls)

-----------------------------------------------------------------------------
(* The hint given to the search *)

\* a size is known: it is not None
Known(x) == x # NoneVal

\* how many times the operation was invoked during the current run()
Count(op) == Cardinality({i \in 1..Len(calls) : calls[i].op = op})

\* this step leaves run_ena's first part, entered without a sequence directory
ResolveStep == pc = "run_ena" /\ ~Given(sequence_dir) /\ pc' # "run_ena"

\* this step appends exactly one invocation of the operation to the log
Invokes(op) == Len(calls') = Len(calls) + 1 /\ calls'[Len(calls')].op = op

(* C14: in run_ena without a sequence directory, search_sequence_data is
   invoked exactly once, and the ungapped size it receives is settled in this
   order: no ungapped size known and a reference genome path known, it is the
   Calculator's ungapped length of that file; an ungapped size known, it is
   that value as it is and the Calculator is not invoked; otherwise it is
   None. *)
C14_HintPriority ==
    /\ [](/\ Count("search_sequence_data") <= 1
          /\ pc \in {"fetch", "list"} => Count("search_sequence_data") = 1)
    /\ [][/\ (ResolveStep /\ ~Known(genome_size_ungapped) /\ Given(reference_genome)) =>
                 /\ Invokes("calculate_genome_size_from_file")
                 /\ calls'[Len(calls')].args = <<reference_genome>>
                 /\ pc' = "search" =>
                        genome_size_ungapped' = calls'[Len(calls')].ret.val[2]
          /\ (ResolveStep /\ Known(genome_size_ungapped)) =>
                 /\ calls' = calls
                 /\ genome_size_ungapped' = genome_size_ungapped
                 /\ pc' = "search"
          /\ (ResolveStep /\ ~Known(genome_size_ungapped) /\ ~Given(reference_genome)) =>
                 /\ calls' = calls
                 /\ genome_size_ungapped' = NoneVal
                 /\ pc' = "search"
          /\ (pc = "search" /\ pc' # "search") =>
                 /\ Invokes("search_sequence_data")
                 /\ calls'[Len(calls')].args = <<genome_size_ungapped>>]_vars

-----------------------------------------------------------------------------
(* The order of the stages *)

\* what the reference genome stage invokes, and the sequencing data stage
RefseqOps == {"calculate_genome_size_from_file", "get_refseq_genomes"}
EnaOps == {"search_sequence_data", "fetch_fastq_files", "list_sequence_files"}

\* the positions of run() inside run_ena
InEna == pc \in {"run_ena", "search", "fetch", "list"}

(* C15: in mode both the stages run in order and data flows forward only:
   run_refseq (its Calculator or get_refseq_genomes call) has returned before
   search_sequence_data, fetch_fastq_files or the Scanner is invoked, and
   get_refseq_genomes is never invoked once run_ena has started; in mode
   refseq only run_refseq's operations are invoked, in mode ena only
   run_ena's. *)
C15_StagesInOrder ==
    /\ mode = "both" =>
           /\ InEna => (refseq_results # NoneVal /\ Len(calls) >= 1)
           /\ \A i \in 1..Len(calls) :
                  /\ calls[i].op \in EnaOps =>
                         /\ i > 1
                         /\ calls[1].op \in RefseqOps
                         /\ calls[1].ret.tag # "raise"
                         /\ refseq_results # NoneVal
                  /\ calls[i].op = "get_refseq_genomes" => i = 1
    /\ mode = "refseq" =>
           /\ ~InEna
           /\ \A i \in 1..Len(calls) : calls[i].op \in RefseqOps
    /\ mode = "ena" =>
           /\ pc \notin {"run_refseq", "adopt"}
           /\ refseq_results = NoneVal
           /\ \A i \in 1..Len(calls) :
                  calls[i].op \in EnaOps \cup {"calculate_genome_size_from_file"}

\* a run() in mode both went through retrieval, search, download and listing
C15_Witness ==
    /\ mode = "both"
    /\ RunEnded
    /\ Ops(calls) = <<"get_refseq_genomes", "search_sequence_data", "fetch_fastq_files",
                      "list_sequence_files">>

-----------------------------------------------------------------------------
(* C16: a failure propagates and nothing is retried: when get_refseq_genomes,
   search_sequence_data, fetch_fastq_files or the Calculator raises during
   run(), run() ends with that same exception, the failing operation has been
   invoked exactly once, nothing is invoked after it (in mode both a failure
   of run_refseq means neither the search nor the download runs), and no
   mapping is returned. *)
C16_FailurePropagates ==
    \A i \in 1..Len(calls) :
        calls[i].ret.tag = "raise" =>
            /\ calls[i].op \in RefseqOps \cup {"search_sequence_data", "fetch_fastq_files"}
            /\ i = Len(calls)
            /\ pc = "idle"
            /\ outcome = [status |-> "raised", error |-> calls[i].ret.val]
            /\ Count(calls[i].op) = 1
            /\ mode = "refseq" => refseq_results = NoneVal
            /\ ena_results = NoneVal
            /\ (mode = "both" /\ refseq_results = NoneVal) =>
                   /\ i = 1
                   /\ ~Invoked("search_sequence_data")
                   /\ ~Invoked("fetch_fastq_files")

\* in mode both the download failed after the retrieval and the search had
\* answered
C16_Witness ==
    /\ mode = "both"
    /\ RunEnded
    /\ Ops(calls) = <<"get_refseq_genomes", "search_sequence_data", "fetch_fastq_files">>
    /\ calls[3].ret = [tag |-> "raise", val |-> "DownloadError"]
    /\ outcome = [status |-> "raised", error |-> "DownloadError"]

-----------------------------------------------------------------------------
(* The download *)

\* the position in the log of the search that answered candidates, 0 if none
FoundAt ==
    IF \E i \in 1..Len(calls) : /\ calls[i].op = "search_sequence_data"
                                /\ calls[i].ret.tag = "list"
                                /\ calls[i].ret.val # <<>>
    THEN CHOOSE i \in 1..Len(calls) : calls[i].op = "search_sequence_data"
    ELSE 0

(* C17: when search_sequence_data answers a non-empty list of candidates,
   fetch_fastq_files is invoked exactly once, with that whole list and the
   working directory, which is the output directory; run_ena's result is
   exactly {sequence_dir, run_accession_to_files, all_files_flat}, where
   run_accession_to_files is the mapping fetch_fastq_files returned,
   untouched, and all_files_flat is the Scanner's listing of the working
   directory taken after the download returned. *)
C17_DownloadResult ==
    FoundAt > 0 =>
        /\ Count("fetch_fastq_files") <= 1
        /\ pc \in {"list", "idle"} =>
               /\ Count("fetch_fastq_files") = 1
               /\ calls[FoundAt + 1].op = "fetch_fastq_files"
               /\ calls[FoundAt + 1].args = <<calls[FoundAt].ret, [tag |-> "str", val |-> outdir]>>
        /\ (pc = "idle" /\ calls[FoundAt + 1].ret.tag # "raise") =>
               /\ Len(calls) = FoundAt + 2
               /\ calls[FoundAt + 2].op = "list_sequence_files"
               /\ calls[FoundAt + 2].args[1] = [tag |-> "str", val |-> outdir]
               /\ ena_results = [sequence_dir |-> [tag |-> "str", val |-> outdir],
                                 run_accession_to_files |-> calls[FoundAt + 1].ret,
                                 all_files_flat |-> calls[FoundAt + 2].ret]
               /\ Elements(ena_results.all_files_flat.val) = FilesUnder(outdir, disk_dirs)
               /\ \A acc \in DOMAIN ena_results.run_accession_to_files.val :
                      Elements(ena_results.run_accession_to_files.val[acc])
                          \subseteq Elements(ena_results.all_files_flat.val)
               /\ mode = "ena" => outcome = [status |-> "returned", value |-> ena_results]

\* in mode both the download went into the output directory that already
\* held the retrieved genome, and all of it is listed
C17_Witness ==
    /\ mode = "both"
    /\ RunEnded
    /\ FoundAt = 2
    /\ Len(calls) = 4
    /\ Len(ena_results.all_files_flat.val) = 3
    /\ DOMAIN ena_results.run_accession_to_files.val = {"ERR1", "ERR2"}

-----------------------------------------------------------------------------
(* C18: for every directory that exists, given as an absolute or as a
   relative path, the Scanner returns exactly the files found by recursive
   descent, one entry per file and no directory, and every entry returned is
   an absolute path. *)
C18_AbsolutePathsOfAllFiles ==
    \A i \in 1..Len(scan_log) :
        path_exists(scan_input, disk_dirs) =>
            /\ Elements(scan_log[i].ret) = FilesUnder(scan_input, disk_dirs)
            /\ Len(scan_log[i].ret) = Cardinality(FilesUnder(scan_input, disk_dirs))
            /\ \A j \in 1..Len(scan_log[i].ret) : isabs(scan_log[i].ret[j][1])

-----------------------------------------------------------------------------
(* The ungapped size 0 *)

\* the working ungapped size is None or 0
AbsentOrZero(x) == x = NoneVal \/ x = [tag |-> "int", val |-> 0]

\* what holds of the steps that start from an ungapped size of 0 and of the
\* search that follows
ZeroIsNotKnown ==
    /\ (ResolveStep /\ genome_size_ungapped = [tag |-> "int", val |-> 0]
            /\ Given(reference_genome)) =>
           /\ Invokes("calculate_genome_size_from_file")
           /\ calls'[Len(calls')].args = <<reference_genome>>
           /\ pc' = "search" => genome_size_ungapped' = calls'[Len(calls')].ret.val[2]
    /\ (ResolveStep /\ genome_size_ungapped = [tag |-> "int", val |-> 0]
            /\ ~Given(reference_genome)) =>
           /\ calls' = calls
           /\ genome_size_ungapped' = genome_size_ungapped
           /\ printed'[Len(printed')] = "Genome size not provided"
           /\ pc' = "search"
    /\ (pc = "search" /\ pc' # "search") =>
           /\ Invokes("search_sequence_data")
           /\ calls'[Len(calls')].args = <<genome_size_ungapped>>
           /\ printed' # printed => printed'[Len(printed')] = "No sequence data found."

(* C19, as claimed: in run_ena the Calculator is invoked if and only if a
   reference genome path is known and the working ungapped size is None or
   0; an ungapped size of 0, given to the constructor or left by run_refseq,
   counts as not known: it is computed again from the reference genome when
   its path is known, and otherwise goes to search_sequence_data as 0 after
   the "not provided" message. *)
C19_CalculatorIffSizeUnknown ==
    [][/\ (pc = "run_ena" /\ pc' # "run_ena") =>
              (Invokes("calculate_genome_size_from_file")
                  <=> (Given(reference_genome) /\ AbsentOrZero(genome_size_ungapped)))
       /\ ZeroIsNotKnown]_vars

(* C19, amended: in run_ena entered without a sequence directory the
   Calculator is invoked if and only if a reference genome path is known and
   the working ungapped size is None or 0, and entered with a sequence
   directory it is never invoked; an ungapped size of 0, given to the
   constructor or left by run_refseq, counts as not known: it is computed
   again from the reference genome when its path is known, and otherwise
   goes to search_sequence_data as 0 after the "not provided" message. *)
C19_CalculatorIffSizeUnknownNoDirectory ==
    [][/\ ResolveStep =>
              (Invokes("calculate_genome_size_from_file")
                  <=> (Given(reference_genome) /\ AbsentOrZero(genome_size_ungapped)))
       /\ (pc = "run_ena" /\ Given(sequence_dir) /\ pc' # "run_ena") =>
              Invokes("list_sequence_files")
       /\ ZeroIsNotKnown]_vars

\* in mode both the retrieval reported an ungapped size of 0 and run_ena has
\* computed the size again from the retrieved file
C19_Witness ==
    /\ mode = "both"
    /\ pc = "search"
    /\ Ops(calls) = <<"get_refseq_genomes", "calculate_genome_size_from_file">>
    /\ calls[1].ret.val[3] = [tag |-> "int", val |-> 0]
    /\ genome_size_ungapped = calls[2].ret.val[2]
    /\ genome_size_ungapped.val > 0

=============================================================================
